---- MODULE Spec2Model ----
(***************************************************************************)
(* Gift Packing Optimizer (src/main.py).                                   *)
(*                                                                         *)
(* solve(df, max_kg, max_value) builds a 0/1 programme (x[i][b]: item i in *)
(* box b, y[b]: box b is used), hands it to CBC and reads the boxes off    *)
(* the solver's variable values.  CBC may return any optimal vertex, so    *)
(* the solver is modelled as a nondeterministic choice among the optimal   *)
(* solutions of the programme.  kg, value and the two limits are floats in *)
(* the program; here they are integers (one unit = one step of the input), *)
(* so float rounding and solver tolerances are outside the model.          *)
(*                                                                         *)
(* main() is the Streamlit script: it is re-run from the top after every   *)
(* interaction with a widget.                                              *)
(***************************************************************************)
EXTENDS Integers, Sequences, FiniteSets, TLC

\* ---------------------------------------------------------------- bounds
\* Largest number of rows of a table handed to solve.
MaxItems == 2
\* Largest kg / value of a row; the smallest is -1 (nothing in the program
\* rejects a zero or a negative number).
MaxNum == 2
\* Largest max_kg / max_value handed to solve (both are at least 1).
MaxCap == 1
\* Largest number of data rows of an uploaded CSV file.
MaxRows == 2

VARIABLES
    df,            \* solve: the table, a sequence of rows [item, kg, value]
    max_kg,        \* solve: weight limit per box
    max_value,     \* solve: value limit per box
    pc,            \* solve: "idle" | "call" | "solved" | "returned" | "raised"
    x,             \* solve: pl.value(x[i][b]) after prob.solve
    y,             \* solve: pl.value(y[b]) after prob.solve
    status,        \* solve: prob.status after prob.solve
    solver_calls,  \* solve: number of prob.solve invocations
    ret,           \* solve: the returned tuple
    sidebar_kg,    \* main: the "Max weight per box (kg)" input, in tenths of a kg
    sidebar_value, \* main: the "Max value per box (Currency)" input
    uploaded_file, \* main: the file in the uploader, or NoUpload
    mpc,           \* main: where the script run is
    main_df,       \* main: df, the table parse_csv returned in this run
    shown,         \* main: the elements this run has put on the page
    raised         \* main: the exception that ended this run, or None

solve_vars == <<df, max_kg, max_value, pc, x, y, status, solver_calls, ret>>
main_vars == <<sidebar_kg, sidebar_value, uploaded_file, mpc, main_df, shown, raised>>
vars == <<solve_vars, main_vars>>

None == "None"
LpStatusOptimal == "Optimal"
LpStatusInfeasible == "Infeasible"

\* ------------------------------------------------------------ the inputs
Nums == (-1)..MaxNum
Caps == 1..MaxCap

\* Row i's "item" cell: rows carry distinct, string names.
ItemName(i) == "item" \o ToString(i)

\* The table with one row per entry of f, row i holding the kg f[i][1] and the
\* value f[i][2].
DataFrame(f) ==
    [i \in DOMAIN f |-> [item |-> ItemName(i), kg |-> f[i][1], value |-> f[i][2]]]

\* ------------------------------------------------------ solve: the model
\* items = list(df.index): main hands solve a table with index 0..n-1.
items(d) == 0..(Len(d) - 1)

\* B = list(range(num_boxes)), num_boxes = len(items).
B(d) == 0..(Len(d) - 1)

RECURSIVE lpSum(_, _)
\* pl.lpSum / sum of the terms f[0], ..., f[n - 1].
lpSum(f, n) ==
    IF n = 0 THEN 0 ELSE f[n - 1] + lpSum(f, n - 1)

RECURSIVE Load(_, _, _, _, _)
\* lpSum(col[i] * x[i][b] for i in items) over the first k items, col being
\* "kg" or "value".
Load(d, col, xv, b, k) ==
    IF k = 0 THEN 0
    ELSE Load(d, col, xv, b, k - 1) + d[k][col] * xv[k - 1][b]

\* Objective: sum of y[b].
Objective(d, yv) == lpSum(yv, Len(d))

\* A cover instead: each item is in at least one box.
PartitionConstraint_cover(n, xi) == lpSum(xi, n) >= 1

\* Each item is assigned to exactly one box: the constraint on item i's row
\* xi = x[i] of the variables.
PartitionConstraint(n, xi) == lpSum(xi, n) = 1

\* The weight constraint alone.
CapacityConstraint_kgonly(d, xv, yv, mk, mv) ==
    \A b \in B(d) : Load(d, "kg", xv, b, Len(d)) <= mk * yv[b]

\* Both constraints with < in place of <=.
CapacityConstraint_strict(d, xv, yv, mk, mv) ==
    \A b \in B(d) :
        /\ Load(d, "kg", xv, b, Len(d)) < mk * yv[b]
        /\ Load(d, "value", xv, b, Len(d)) < mv * yv[b]

\* Weight and value constraints for each box.
CapacityConstraint(d, xv, yv, mk, mv) ==
    \A b \in B(d) :
        /\ Load(d, "kg", xv, b, Len(d)) <= mk * yv[b]
        /\ Load(d, "value", xv, b, Len(d)) <= mv * yv[b]

\* Symmetry breaking: y[b] >= y[b + 1].
SymmetryConstraint(n, yv) ==
    \A b \in 0..(n - 2) : yv[b] >= yv[b + 1]

\* The values of the binary variables x and y that meet the constraints
\* which do not read the table: x[i] meets item i's partition constraint,
\* y the symmetry breaking.
XValues(n) ==
    [0..(n - 1) -> { xi \in [0..(n - 1) -> {0, 1}] : PartitionConstraint(n, xi) }]

YValues(n) == { yv \in [0..(n - 1) -> {0, 1}] : SymmetryConstraint(n, yv) }

\* The solutions <<x, y>> of the programme whose objective is k.
FeasibleAt(d, mk, mv, k) ==
    UNION { { <<xv, yv>> : xv \in { z \in XValues(Len(d)) :
                                      CapacityConstraint(d, z, yv, mk, mv) } }
            : yv \in { w \in YValues(Len(d)) : Objective(d, w) = k } }

RECURSIVE OptimalFrom(_, _, _, _)
\* The solutions of the least objective >= k that has any; {} if none has.
OptimalFrom(d, mk, mv, k) ==
    IF k > Len(d) THEN {}
    ELSE LET F == FeasibleAt(d, mk, mv, k)
         IN IF F # {} THEN F ELSE OptimalFrom(d, mk, mv, k + 1)

\* prob.solve: the solutions CBC may return, those of the least objective.
OptimalSolutions(d, mk, mv) == OptimalFrom(d, mk, mv, 0)

\* ------------------------------------------------- solve: reading results
RECURSIVE Ascending(_, _)
\* The members of the set S of naturals below n, as an ascending list.
Ascending(S, n) ==
    IF n = 0 THEN <<>>
    ELSE IF (n - 1) \in S THEN Append(Ascending(S, n - 1), n - 1)
         ELSE Ascending(S, n - 1)

\* used_boxes = [b for b in B if pl.value(y[b]) > 0.5]
used_boxes(d, yv) == Ascending({ b \in B(d) : 2 * yv[b] > 1 }, Len(d))

RECURSIVE BoxAssignmentsUpTo(_, _, _)
\* The loop over the first k items: the first b with x[i][b] > 0.5 gives
\* b + 1, and an item with no such b appends nothing.
BoxAssignmentsUpTo(d, xv, k) ==
    IF k = 0 THEN <<>>
    ELSE LET prev == BoxAssignmentsUpTo(d, xv, k - 1)
             hits == { b \in B(d) : 2 * xv[k - 1][b] > 1 }
         IN IF hits = {} THEN prev
            ELSE Append(prev, (CHOOSE b \in hits : \A c \in hits : b <= c) + 1)

box_assignments(d, xv) == BoxAssignmentsUpTo(d, xv, Len(d))

\* df_result = df.copy(); df_result["box"] = box_assignments
WithBoxColumn(d, ba) ==
    [r \in 1..Len(d) |->
        [item |-> d[r].item, kg |-> d[r].kg, value |-> d[r].value, box |-> ba[r]]]

\* box_items = [i for i in items if pl.value(x[i][b]) > 0.5]
box_items(d, xv, b) == Ascending({ i \in items(d) : 2 * xv[i][b] > 1 }, Len(d))

RECURSIVE ColumnSum(_, _, _, _)
\* sum(col[i] for i in box_items), over the first k entries of the list bi.
ColumnSum(d, col, bi, k) ==
    IF k = 0 THEN 0 ELSE ColumnSum(d, col, bi, k - 1) + d[bi[k] + 1][col]

\* One row of the summary, for box b holding the items bi.  round(., 2)
\* leaves these whole numbers as they are; "Items" holds the names in order
\* (the program joins them with ", ").
SummaryRow(d, bi, b) ==
    [Box |-> b + 1,
     Weight |-> ColumnSum(d, "kg", bi, Len(bi)),
     Value |-> ColumnSum(d, "value", bi, Len(bi)),
     Items |-> [k \in 1..Len(bi) |-> d[bi[k] + 1].item]]

SummaryRows(d, xv, ub) ==
    [k \in 1..Len(ub) |-> SummaryRow(d, box_items(d, xv, ub[k]), ub[k])]

boxes_summary(d, xv, yv) == SummaryRows(d, xv, used_boxes(d, yv))

\* return None, None, 0
InfeasibleReturn == <<None, None, 0>>

\* ------------------------------------------------------------------- main
\* st.sidebar.number_input(..., value=2.0, step=0.1, min_value=0.1), in
\* tenths of a kg, and number_input(..., value=39.0, step=1.0, min_value=1.0).
DefaultMaxKg == 20
MinMaxKg == 1
DefaultMaxValue == 39
MinMaxValue == 1

\* The values the user gives the two inputs: the default and the least one
\* the widget accepts.
SidebarKgChoices == {MinMaxKg, DefaultMaxKg}
SidebarValueChoices == {MinMaxValue, DefaultMaxValue}

\* The text of a CSV cell: empty, a word, a number.
CellTexts == {"", "abc", "1"}
Numerals == [t \in {"1"} |-> 1]

\* st.file_uploader returned None: no file, written as a file with no header.
NoUpload == [columns |-> {}, rows |-> <<>>]

\* The headers of an uploaded file: any of the three columns may be missing.
Headers == (SUBSET {"item", "kg", "value"}) \ {{}}

\* The uploaded files with the header cols and n data rows.
CsvFiles(cols, n) ==
    { [columns |-> cols, rows |-> rs] : rs \in [1..n -> [cols -> CellTexts]] }

\* pd.to_numeric(., errors="coerce") on one cell: text that is no number
\* becomes NaN.
to_numeric(t) ==
    IF t \in DOMAIN Numerals THEN [isna |-> FALSE, num |-> Numerals[t]]
    ELSE [isna |-> TRUE, num |-> 0]

\* Whether df.dropna() keeps the row: no cell is NaN.  An empty cell is read
\* as NaN in any column; kg and value are NaN where to_numeric made them so.
HasNoNaN(row) ==
    \A c \in DOMAIN row :
        IF c \in {"kg", "value"} THEN ~to_numeric(row[c]).isna ELSE row[c] # ""

RECURSIVE dropna(_, _)
\* The rows among the first k that dropna keeps, kg and value as numbers.
dropna(rows, k) ==
    IF k = 0 THEN <<>>
    ELSE IF HasNoNaN(rows[k])
         THEN Append(dropna(rows, k - 1),
                     [c \in DOMAIN rows[k] |->
                        IF c \in {"kg", "value"} THEN to_numeric(rows[k][c]).num
                        ELSE rows[k][c]])
         ELSE dropna(rows, k - 1)

\* parse_csv: df["kg"] and df["value"] raise KeyError when the file has no
\* such column.
parse_csv(f) ==
    IF "kg" \notin f.columns \/ "value" \notin f.columns
    THEN [raised |-> "KeyError", df |-> <<>>]
    ELSE [raised |-> None, df |-> dropna(f.rows, Len(f.rows))]

\* solve is not running.
SolveIdle ==
    /\ df = <<>>
    /\ max_kg = DefaultMaxKg
    /\ max_value = DefaultMaxValue
    /\ pc = "idle"
    /\ x = None
    /\ y = None
    /\ status = None
    /\ solver_calls = 0
    /\ ret = None

\* main is not running.
MainIdle ==
    /\ sidebar_kg = DefaultMaxKg
    /\ sidebar_value = DefaultMaxValue
    /\ uploaded_file = NoUpload
    /\ mpc = "idle"
    /\ main_df = <<>>
    /\ shown = <<>>
    /\ raised = None

\* The script starts: nothing is on the page yet.
Rerun ==
    /\ mpc' = "start"
    /\ main_df' = <<>>
    /\ shown' = <<>>
    /\ raised' = None

MainInit ==
    /\ SolveIdle
    /\ sidebar_kg = DefaultMaxKg
    /\ sidebar_value = DefaultMaxValue
    /\ uploaded_file = NoUpload
    /\ mpc = "start"
    /\ main_df = <<>>
    /\ shown = <<>>
    /\ raised = None

\* The run is over: the script ran to its end or an exception ended it.
RunOver == mpc \in {"done", "raised"}

\* The user changes the weight limit in the sidebar; the script runs again.
ChangeMaxKg ==
    /\ RunOver
    /\ \E v \in SidebarKgChoices \ {sidebar_kg} : sidebar_kg' = v
    /\ Rerun
    /\ UNCHANGED <<sidebar_value, uploaded_file>>
    /\ UNCHANGED solve_vars

\* The user changes the value limit in the sidebar; the script runs again.
ChangeMaxValue ==
    /\ RunOver
    /\ \E v \in SidebarValueChoices \ {sidebar_value} : sidebar_value' = v
    /\ Rerun
    /\ UNCHANGED <<sidebar_kg, uploaded_file>>
    /\ UNCHANGED solve_vars

\* The user uploads a file; the script runs again.
UploadFile ==
    /\ RunOver
    /\ \E cols \in Headers, n \in 0..MaxRows :
        \E f \in CsvFiles(cols, n) \ {uploaded_file} : uploaded_file' = f
    /\ Rerun
    /\ UNCHANGED <<sidebar_kg, sidebar_value>>
    /\ UNCHANGED solve_vars

\* The user removes the file; the script runs again.
RemoveFile ==
    /\ RunOver
    /\ uploaded_file # NoUpload
    /\ uploaded_file' = NoUpload
    /\ Rerun
    /\ UNCHANGED <<sidebar_kg, sidebar_value>>
    /\ UNCHANGED solve_vars

\* st.title, the sidebar with its two inputs, the line with the limits and
\* the uploader.
RenderHeader ==
    /\ mpc = "start"
    /\ shown' = <<"title", "sidebar", "limits", "uploader">>
    /\ mpc' = "uploaded?"
    /\ UNCHANGED <<sidebar_kg, sidebar_value, uploaded_file, main_df, raised>>
    /\ UNCHANGED solve_vars

\* uploaded_file is None: st.info, and the script ends.
NoFile ==
    /\ mpc = "uploaded?"
    /\ uploaded_file = NoUpload
    /\ shown' = Append(shown, "info")
    /\ mpc' = "done"
    /\ UNCHANGED <<sidebar_kg, sidebar_value, uploaded_file, main_df, raised>>
    /\ UNCHANGED solve_vars

\* df = parse_csv(uploaded_file), then st.subheader("Gift Data (Editable)").
ParseUpload ==
    /\ mpc = "uploaded?"
    /\ uploaded_file # NoUpload
    /\ LET r == parse_csv(uploaded_file)
       IN IF r.raised # None
          THEN /\ raised' = r.raised
               /\ mpc' = "raised"
               /\ UNCHANGED <<main_df, shown>>
          ELSE /\ main_df' = r.df
               /\ shown' = Append(shown, "subheader")
               /\ mpc' = "data_editor"
               /\ UNCHANGED raised
    /\ UNCHANGED <<sidebar_kg, sidebar_value, uploaded_file>>
    /\ UNCHANGED solve_vars

\* st.data_editor(df, num_rows="dynamic", width=stretch): the name stretch
\* is bound nowhere in the script, so evaluating the arguments raises
\* NameError and the run ends here.  The "Pack Gifts" button and all that
\* follows it (the empty-table message, the call of solve, the results) are
\* never reached.
DataEditor ==
    /\ mpc = "data_editor"
    /\ raised' = "NameError"
    /\ mpc' = "raised"
    /\ UNCHANGED <<sidebar_kg, sidebar_value, uploaded_file, main_df, shown>>
    /\ UNCHANGED solve_vars

MainNext ==
    \/ ChangeMaxKg
    \/ ChangeMaxValue
    \/ UploadFile
    \/ RemoveFile
    \/ RenderHeader
    \/ NoFile
    \/ ParseUpload
    \/ DataEditor

MainSpec == MainInit /\ [][MainNext]_vars


\* ------------------------------------------------------------ solve: steps
SolveInit ==
    /\ \E n \in 1..MaxItems : \E f \in [1..n -> Nums \X Nums] : df = DataFrame(f)
    /\ max_kg \in Caps
    /\ max_value \in Caps
    /\ pc = "call"
    /\ x = None
    /\ y = None
    /\ status = None
    /\ solver_calls = 0
    /\ ret = None
    /\ MainIdle

\* The outcomes of prob.solve(pl.PULP_CBC_CMD(msg=False)): an optimal
\* solution, or no solution.
SolverOutcomes(d, mk, mv) ==
    LET sols == OptimalSolutions(d, mk, mv)
    IN IF sols = {}
       THEN { [status |-> LpStatusInfeasible, x |-> None, y |-> None] }
       ELSE { [status |-> LpStatusOptimal, x |-> s[1], y |-> s[2]] : s \in sols }

\* A solve that looks for an item over a limit first and does not invoke the
\* solver when it finds one.
ProbSolve_precheck ==
    /\ pc = "call"
    /\ \E out \in SolverOutcomes(df, max_kg, max_value) :
        /\ status' = out.status
        /\ x' = out.x
        /\ y' = out.y
    /\ solver_calls' =
         IF \E r \in 1..Len(df) : df[r].kg > max_kg \/ df[r].value > max_value
         THEN solver_calls ELSE solver_calls + 1
    /\ pc' = "solved"
    /\ UNCHANGED <<df, max_kg, max_value, ret>>
    /\ UNCHANGED main_vars

\* The model is built and prob.solve is invoked.
ProbSolve ==
    /\ pc = "call"
    /\ \E out \in SolverOutcomes(df, max_kg, max_value) :
        /\ status' = out.status
        /\ x' = out.x
        /\ y' = out.y
    /\ solver_calls' = solver_calls + 1
    /\ pc' = "solved"
    /\ UNCHANGED <<df, max_kg, max_value, ret>>
    /\ UNCHANGED main_vars

\* if prob.status != pl.LpStatusOptimal: return None, None, 0
ReturnInfeasible ==
    /\ pc = "solved"
    /\ status # LpStatusOptimal
    /\ ret' = InfeasibleReturn
    /\ pc' = "returned"
    /\ UNCHANGED <<df, max_kg, max_value, x, y, status, solver_calls>>
    /\ UNCHANGED main_vars

\* The results are read off the variables and returned.  pandas raises
\* ValueError when the box column is not as long as the table.
ExtractResults ==
    /\ pc = "solved"
    /\ status = LpStatusOptimal
    /\ LET ba == box_assignments(df, x)
       IN IF Len(ba) = Len(df)
          THEN /\ ret' = <<WithBoxColumn(df, ba), boxes_summary(df, x, y),
                           Len(used_boxes(df, y))>>
               /\ pc' = "returned"
          ELSE /\ ret' = None
               /\ pc' = "raised"
    /\ UNCHANGED <<df, max_kg, max_value, x, y, status, solver_calls>>
    /\ UNCHANGED main_vars

Init == SolveInit

Next == ProbSolve \/ ReturnInfeasible \/ ExtractResults

Spec == Init /\ [][Next]_vars

\* ------------------------------------------------------------- properties
\* solve has returned a result (df_result is not None).
Solved == pc = "returned" /\ status = LpStatusOptimal

\* solve has returned the infeasible result.
NoSolution == pc = "returned" /\ status # LpStatusOptimal

\* The rows of the table that no box can hold on their own.
OverLimit == { r \in 1..Len(df) : df[r].kg > max_kg \/ df[r].value > max_value }

\* No kg and no value of the table is negative.
NonNegativeTable == \A r \in 1..Len(df) : df[r].kg >= 0 /\ df[r].value >= 0

\* The box numbers of the returned assignment.
BoxesInUse == { ret[1][r].box : r \in 1..Len(ret[1]) }

RECURSIVE Total(_, _, _, _)
\* The sum of column col over the rows of the table numbered in sel, up to k.
Total(rows, col, sel, k) ==
    IF k = 0 THEN 0
    ELSE Total(rows, col, sel, k - 1) + (IF k \in sel THEN rows[k][col] ELSE 0)

\* The assignments of the rows to boxes 1..n that respect both limits.
Packings ==
    { a \in [1..Len(df) -> 1..Len(df)] :
        \A c \in 1..Len(df) :
            LET sel == { r \in 1..Len(df) : a[r] = c }
            IN /\ Total(df, "kg", sel, Len(df)) <= max_kg
               /\ Total(df, "value", sel, Len(df)) <= max_value }

\* C1: whenever solve returns a result, the box column has one entry per input
\* row, in the input's row order, and it is the one box the solver put the
\* item in: no item without a box, no item in two boxes.
C1_ExactlyOneBox ==
    Solved =>
        /\ Len(ret[1]) = Len(df)
        /\ \A r \in 1..Len(df) :
            /\ ret[1][r].item = df[r].item
            /\ ret[1][r].kg = df[r].kg
            /\ ret[1][r].value = df[r].value
            /\ ret[1][r].box \in 1..Len(df)
            /\ \A b \in B(df) : (x[r - 1][b] = 1) <=> (b + 1 = ret[1][r].box)

\* Two items that the solver had to put in different boxes.
C1_Witness ==
    /\ Solved
    /\ Len(df) >= 2
    /\ df[1].kg + df[2].kg > max_kg
    /\ ret[1][1].box # ret[1][2].box

\* C2: whenever solve returns a result, every box number of the assignment
\* holds at most max_kg of weight and at most max_value of value.
C2_BoxLimits ==
    Solved =>
        \A c \in BoxesInUse :
            LET sel == { r \in 1..Len(ret[1]) : ret[1][r].box = c }
            IN /\ Total(ret[1], "kg", sel, Len(ret[1])) <= max_kg
               /\ Total(ret[1], "value", sel, Len(ret[1])) <= max_value

\* A box that holds two items and is full in weight and in value.
C2_Witness ==
    /\ Solved
    /\ NonNegativeTable
    /\ \E c \in BoxesInUse :
        LET sel == { r \in 1..Len(ret[1]) : ret[1][r].box = c }
        IN /\ Cardinality(sel) >= 2
           /\ Total(ret[1], "kg", sel, Len(ret[1])) = max_kg
           /\ Total(ret[1], "value", sel, Len(ret[1])) = max_value

\* C3: whenever solve returns a result, num_boxes is the number of non-empty
\* boxes of the returned assignment, and no assignment of all items that
\* respects both limits uses fewer non-empty boxes.  Stated for the tables
\* with no negative kg or value, where it already fails.
C3_NumBoxesMinimal ==
    (Solved /\ NonNegativeTable) =>
        /\ ret[3] = Cardinality(BoxesInUse)
        /\ \A a \in Packings :
            Cardinality({ a[r] : r \in 1..Len(df) }) >= Cardinality(BoxesInUse)

\* C4: solve returns the infeasible result exactly when some single item is
\* over a limit, and a returned assignment drops no item.
C4_InfeasibleIffOverLimit ==
    /\ pc = "returned" => (NoSolution <=> OverLimit # {})
    /\ Solved => Len(ret[1]) = Len(df)

\* C4, amended: for a table with no negative kg or value, solve returns the
\* infeasible result exactly when some single item is over a limit, and a
\* returned assignment drops no item.
C4_NonNegativeTables ==
    NonNegativeTable =>
        /\ pc = "returned" => (NoSolution <=> OverLimit # {})
        /\ Solved => Len(ret[1]) = Len(df)

\* Two items, one of them over a limit, and solve has returned infeasible.
C4_Witness ==
    /\ NoSolution
    /\ NonNegativeTable
    /\ Len(df) >= 2
    /\ Cardinality(OverLimit) = 1

\* C5: whenever solve returns a result with num_boxes = k, the box numbers
\* in use are exactly 1..k.  Stated for the tables with no negative kg or
\* value, where it already fails.
C5_BoxNumbersPrefix ==
    (Solved /\ NonNegativeTable) => BoxesInUse = 1..ret[3]

\* C6: whenever solve returns a result, the summary rows are in ascending
\* Box order, none is empty, and every input item is listed in exactly one
\* row, the row of its box number in df_result.  Stated for the tables with
\* no negative kg or value, where it already fails.
C6_SummaryAgrees ==
    (Solved /\ NonNegativeTable) =>
        /\ \A k \in 1..(Len(ret[2]) - 1) : ret[2][k].Box < ret[2][k + 1].Box
        /\ \A k \in 1..Len(ret[2]) : Len(ret[2][k].Items) > 0
        /\ \A r \in 1..Len(df) :
            \E k \in 1..Len(ret[2]) :
                /\ ret[2][k].Box = ret[1][r].box
                /\ \A j \in 1..Len(ret[2]) :
                    (\E m \in 1..Len(ret[2][j].Items) : ret[2][j].Items[m] = df[r].item)
                        <=> (j = k)

\* C3, C5 and C6 hold of the tables in which every item has some weight or
\* some value and nothing is negative.
EveryItemCounts ==
    \A r \in 1..Len(df) :
        df[r].kg >= 0 /\ df[r].value >= 0 /\ (df[r].kg > 0 \/ df[r].value > 0)

CountedTablesAgree ==
    EveryItemCounts => (C3_NumBoxesMinimal /\ C5_BoxNumbersPrefix /\ C6_SummaryAgrees)

\* C8: when a single item is over a limit, this is found before the solver
\* is invoked (the solver is never invoked), and the report names the item.
C8_DetectedBeforeSolver ==
    (pc \in {"solved", "returned"} /\ OverLimit # {}) =>
        /\ solver_calls = 0
        /\ pc = "returned" =>
            /\ NoSolution
            /\ \E r \in OverLimit : ret[1] = df[r].item \/ ret[2] = df[r].item

\* C8, amended: every call of solve invokes the solver once, also when a
\* single item is over a limit, and an infeasible call returns
\* (None, None, 0), which names no item.
C8_SolverAlwaysInvoked ==
    /\ pc \in {"solved", "returned"} => solver_calls = 1
    /\ NoSolution => ret = <<None, None, 0>>

\* An item over a limit, the solver invoked, the infeasible result returned.
C8_Witness ==
    /\ NoSolution
    /\ OverLimit # {}
    /\ solver_calls = 1
    /\ ret = <<None, None, 0>>

\* The table main has when the uploaded file parses.
FileParses == uploaded_file # NoUpload /\ parse_csv(uploaded_file).raised = None

\* parse_csv hands main only rows whose kg and value are numbers.
ParsedRowsAreNumeric ==
    \A r \in 1..Len(main_df) : main_df[r].kg \in Int /\ main_df[r].value \in Int

\* C9: a run of main over an uploaded file whose table is empty is not an
\* error: it does not end in an exception, so that it can offer "Pack Gifts"
\* and answer a press with the "No gift data" message.
C9_EmptyTableIsNoError ==
    (RunOver /\ FileParses /\ parse_csv(uploaded_file).df = <<>>) => raised = None

\* C10: a run of main over an uploaded file never ends in an uncaught
\* exception: it gets to "Pack Gifts", and from there to one of the three
\* reported outcomes.
C10_NoUncaughtFault ==
    (RunOver /\ uploaded_file # NoUpload) => raised = None

====
